---------------------------- MODULE Spec2Model ----------------------------
(*************************************************************************)
(* Model of tramp.protected_strings: ProtectedString (a leaf carrying a  *)
(* protected value) and ProtectedStringBuilder (an ordered list of plain *)
(* strings and ProtectedStrings), with render / join / format.           *)
(*                                                                       *)
(* A Python str is a sequence of one-character strings.  A builder is an *)
(* object whose field `strings` refers to a list object; lists live in a *)
(* separate store so that two builders sharing one list is expressible.  *)
(*                                                                       *)
(* Also modelled: tramp.containers.Container (a settable reference) and  *)
(* tramp.results: Result.Value, Result.Error and the context manager     *)
(* that Result.build() returns.                                          *)
(*************************************************************************)
EXTENDS Integers, Sequences, FiniteSets, TLC

VARIABLES
    strings,   \* strings[o]: the list object held by builder o's field `strings`
    lists,     \* lists[l]: the contents of list object l
    ret,       \* what the last operation was called with and what it returned
    container, \* the fields _set and _value of a Container
    supplied,  \* history: whether the caller has given the container a value, and the last one given
    block      \* where control is with respect to a `with Result.build()` block

vars == <<strings, lists, ret, container, supplied, block>>

-----------------------------------------------------------------------------
(* Bounds of the model *)

MaxObjs == 3       \* builders allocated in one behaviour
MaxParts == 2      \* longest part list an operation may produce
MaxSpecLen == 4    \* longest format spec string

-----------------------------------------------------------------------------
(* Python str operations used by the code *)

LowerLetters == <<"a","b","c","d","e","f","g","h","i","j","k","l","m",
                  "n","o","p","q","r","s","t","u","v","w","x","y","z">>
UpperLetters == <<"A","B","C","D","E","F","G","H","I","J","K","L","M",
                  "N","O","P","Q","R","S","T","U","V","W","X","Y","Z">>
Digits == {"0","1","2","3","4","5","6","7","8","9"}
Whitespace == {" ", "\t", "\n", "\r"}

Range(f) == {f[i] : i \in DOMAIN f}

IsLower(c) == c \in Range(LowerLetters)
IsUpper(c) == c \in Range(UpperLetters)
IsCased(c) == IsLower(c) \/ IsUpper(c)

upper(c) == IF IsLower(c)
            THEN UpperLetters[CHOOSE i \in DOMAIN LowerLetters : LowerLetters[i] = c]
            ELSE c

lower(c) == IF IsUpper(c)
            THEN LowerLetters[CHOOSE i \in DOMAIN UpperLetters : UpperLetters[i] = c]
            ELSE c

\* str.capitalize() in the place of str.title()
title_capitalize(s) == [i \in 1..Len(s) |-> IF i = 1 THEN upper(s[i]) ELSE lower(s[i])]

\* str.title(): a cased character is upper-cased when the character before it
\* is uncased (or it is the first), and lower-cased when it follows a cased one.
title(s) == [i \in 1..Len(s) |->
                IF i > 1 /\ IsCased(s[i-1]) THEN lower(s[i]) ELSE upper(s[i])]

\* str.isidentifier() on the ASCII range
isidentifier(s) ==
    /\ Len(s) > 0
    /\ IsCased(s[1]) \/ s[1] = "_"
    /\ \A i \in 2..Len(s) : IsCased(s[i]) \/ s[i] \in Digits \/ s[i] = "_"

\* "".join(seq): concatenation of a sequence of strings
RECURSIVE join(_)
join(seq) == IF seq = <<>> THEN <<>> ELSE Head(seq) \o join(Tail(seq))

\* sep.join(seq)
RECURSIVE join_with(_, _)
join_with(sep, seq) ==
    IF seq = <<>> THEN <<>>
    ELSE IF Len(seq) = 1 THEN Head(seq)
    ELSE Head(seq) \o sep \o join_with(sep, Tail(seq))

\* index of the first occurrence of character c in s, 0 when absent
find(s, c) == IF \E i \in 1..Len(s) : s[i] = c
              THEN CHOOSE i \in 1..Len(s) : s[i] = c /\ \A j \in 1..(i-1) : s[j] # c
              ELSE 0

\* s.partition(c): <<before, sep, after>> around the first c
partition(s, c) ==
    LET i == find(s, c) IN
    IF i = 0 THEN <<s, <<>>, <<>>>>
    ELSE <<SubSeq(s, 1, i-1), <<c>>, SubSeq(s, i+1, Len(s))>>

\* s.split(c): the pieces between occurrences of c (always at least one piece)
RECURSIVE split(_, _)
split(s, c) ==
    LET i == find(s, c) IN
    IF i = 0 THEN <<s>>
    ELSE <<SubSeq(s, 1, i-1)>> \o split(SubSeq(s, i+1, Len(s)), c)

\* s.strip(): leading and trailing whitespace removed
RECURSIVE lstrip(_)
lstrip(s) == IF s # <<>> /\ Head(s) \in Whitespace THEN lstrip(Tail(s)) ELSE s

RECURSIVE rstrip(_)
rstrip(s) == IF s # <<>> /\ s[Len(s)] \in Whitespace
             THEN rstrip(SubSeq(s, 1, Len(s)-1)) ELSE s

strip(s) == rstrip(lstrip(s))

-----------------------------------------------------------------------------
(* Values *)

\* Optional[str]
None == [isNone |-> TRUE, s |-> <<>>]
Some(s) == [isNone |-> FALSE, s |-> s]

\* An element of a builder's list: a plain str, or a ProtectedString leaf.
\* A leaf is immutable, so it is modelled by its fields.
Str(s) == [kind |-> "str", value |-> s, name |-> <<>>, hide_name |-> FALSE]
ProtectedString(value, name, hide_name) ==
    [kind |-> "ProtectedString", value |-> value, name |-> name, hide_name |-> hide_name]

\* ProtectedString(value, name) called with a value that is not a str but a
\* ProtectedString: __init__ stores whatever object it is given
ProtectedStringOf(value, name, hide_name) ==
    [kind |-> "ProtectedString", value |-> value, name |-> name, hide_name |-> hide_name,
     value_type |-> "ProtectedString"]

\* isinstance(x, ProtectedString): ProtectedStringBuilder is a subclass
isinstance_ProtectedString(x) == x.kind \in {"ProtectedString", "ProtectedStringBuilder"}

\* type(string.value).__name__
value_type(string) ==
    IF "value_type" \in DOMAIN string THEN string.value_type ELSE "str"


\* The `allowed` argument of render / join: None, a callable, or a container
\* of names.  kind "lambda_false" and "lambda_name_in" are the two closures
\* __format__ creates; kind "predicate" is a caller's callable, given by the
\* set of leaves it returns True for; kind "container" is a list, set or
\* tuple of names.
AllowedNone == [kind |-> "None", names |-> {}, accept |-> {}]
LambdaFalse == [kind |-> "lambda_false", names |-> {}, accept |-> {}]
LambdaNameIn(filtered_names) ==
    [kind |-> "lambda_name_in", names |-> filtered_names, accept |-> {}]
Predicate(accept) == [kind |-> "predicate", names |-> {}, accept |-> accept]
Container(names) == [kind |-> "container", names |-> names, accept |-> {}]
\* a single str passed as `allowed`: a str has __contains__ too
StrAllowed(s) == [kind |-> "str", names |-> {s}, accept |-> {}]

\* isinstance(allowed, CallableProtocol): the object has __call__
CallableProtocol(allowed) ==
    allowed.kind \in {"lambda_false", "lambda_name_in", "predicate"}

\* isinstance(allowed, ContainsProtocol): the object has __contains__
ContainsProtocol(allowed) == allowed.kind \in {"container", "str"}

\* sub in s, for two strs: s has sub as a substring
str__contains__(s, sub) ==
    \E i \in 0..(Len(s) - Len(sub)) : SubSeq(s, i + 1, i + Len(sub)) = sub

\* `name in allowed`: membership in a list, set or tuple of names, the
\* substring test in a str
contains(allowed, name) ==
    IF allowed.kind = "str"
    THEN \E s \in allowed.names : str__contains__(s, name)
    ELSE name \in allowed.names

\* the closure of __format__ comparing names without regard to case
call_ignoring_case(allowed, string) ==
    CASE allowed.kind = "lambda_false" -> FALSE
      [] allowed.kind = "lambda_name_in" ->
           \E n \in allowed.names :
               [i \in DOMAIN n |-> lower(n[i])]
               = [i \in DOMAIN string.name |-> lower(string.name[i])]
      [] allowed.kind = "predicate" -> string \in allowed.accept

\* allowed(string) for a callable
call(allowed, string) ==
    CASE allowed.kind = "lambda_false" -> FALSE
      [] allowed.kind = "lambda_name_in" -> string.name \in allowed.names
      [] allowed.kind = "predicate" -> string \in allowed.accept

-----------------------------------------------------------------------------
(* ProtectedString and ProtectedStringBuilder: rendering *)

Redacted == <<"<","R","e","d","a","c","t","e","d",">">>
RedactedOpen == <<"<","R","e","d","a","c","t","e","d"," ">>

\* __repr__ with the hide_name test left out
repr_ignores_hide_name(self) ==
    IF self.name # <<>>
    THEN RedactedOpen \o title(self.name) \o <<">">>
    ELSE Redacted

\* ProtectedString.__repr__
repr(self) ==
    IF self.name # <<>> /\ ~self.hide_name
    THEN RedactedOpen \o title(self.name) \o <<">">>
    ELSE Redacted

\* _redact with the marker tested before the allow-policy
_redact_marker_first(string, redact_with, allowed) ==
    IF ~redact_with.isNone THEN redact_with.s
    ELSE IF CallableProtocol(allowed) /\ call(allowed, string) THEN string.value
    ELSE IF ContainsProtocol(allowed) /\ contains(allowed, string.name) THEN string.value
    ELSE repr(string)

\* ProtectedStringBuilder._redact
_redact(string, redact_with, allowed) ==
    IF CallableProtocol(allowed) /\ call(allowed, string) THEN string.value
    ELSE IF ContainsProtocol(allowed) /\ contains(allowed, string.name) THEN string.value
    ELSE IF redact_with.isNone THEN repr(string) ELSE redact_with.s

\* render_items with the isinstance test left out: every element is redacted
render_items_redacts_text(strs, redact_with, allowed) ==
    [i \in 1..Len(strs) |-> _redact(strs[i], redact_with, allowed)]

\* The items the generator inside render yields, one per element of the list
render_items(strs, redact_with, allowed) ==
    [i \in 1..Len(strs) |->
        IF isinstance_ProtectedString(strs[i])
        THEN _redact(strs[i], redact_with, allowed)
        ELSE strs[i].value]


-----------------------------------------------------------------------------
(* The heap: builders and the list objects they hold *)

Heap == [strings |-> strings, lists |-> lists]
Objs == DOMAIN strings

\* the contents of builder o's list in heap h
contents(h, o) == h.lists[h.strings[o]]

\* ProtectedStringBuilder.__init__: self.strings = list(strings), a fresh list.
\* Yields the heap afterwards and the new object.
Builder__init__(h, parts) ==
    [strings |-> Append(h.strings, Len(h.lists) + 1),
     lists |-> Append(h.lists, parts),
     obj |-> Len(h.strings) + 1]


\* ProtectedStringBuilder.render
render(h, self, redact_with, allowed) ==
    join(render_items(contents(h, self), redact_with, allowed))

\* ProtectedString.join: a builder made of the parts, rendered
PS_join(h, parts, redact_with, allowed) ==
    LET builder == Builder__init__(h, parts)
    IN render(builder, builder.obj, redact_with, allowed)

\* raise FormatError(literal + detail)
FormatError(literal, detail) ==
    [raised |-> TRUE, error |-> [type |-> "FormatError", literal |-> literal, detail |-> detail],
     out |-> <<>>]
Return(out) ==
    [raised |-> FALSE, error |-> [type |-> "", literal |-> "", detail |-> <<>>], out |-> out]

\* raise TypeError(...), as str.join does for an item that is not a str
TypeError ==
    [raised |-> TRUE, error |-> [type |-> "TypeError", literal |-> "", detail |-> <<>>],
     out |-> <<>>]

\* The type of what _redact returns: string.value where an allow case
\* matches, otherwise repr(string) or redact_with, both of them str
_redact_type(string, redact_with, allowed) ==
    IF CallableProtocol(allowed) /\ call(allowed, string) THEN value_type(string)
    ELSE IF ContainsProtocol(allowed) /\ contains(allowed, string.name) THEN value_type(string)
    ELSE "str"

\* The types of the items the generator inside render yields
render_item_types(strs, redact_with, allowed) ==
    [i \in 1..Len(strs) |->
        IF isinstance_ProtectedString(strs[i])
        THEN _redact_type(strs[i], redact_with, allowed)
        ELSE "str"]

\* ProtectedStringBuilder.render with the outcome of "".join(...): TypeError
\* when an item is not a str, the joined text otherwise
render_outcome(h, self, redact_with, allowed) ==
    IF \E t \in Range(render_item_types(contents(h, self), redact_with, allowed)) : t # "str"
    THEN TypeError
    ELSE Return(render(h, self, redact_with, allowed))

\* invalid_names cut down to the first name found
filter_invalid_first_only(seq) ==
    IF \E i \in DOMAIN seq : ~isidentifier(seq[i])
    THEN <<seq[CHOOSE i \in DOMAIN seq :
                 ~isidentifier(seq[i]) /\ \A j \in 1..(i-1) : isidentifier(seq[j])]>>
    ELSE <<>>

\* [name for name in filtered_names if not name.isidentifier()], the set
\* being iterated in the order seq
RECURSIVE filter_invalid(_)
filter_invalid(seq) ==
    IF seq = <<>> THEN <<>>
    ELSE IF ~isidentifier(Head(seq)) THEN <<Head(seq)>> \o filter_invalid(Tail(seq))
    ELSE filter_invalid(Tail(seq))

\* set(name.strip() for name in allowed_names.split(",") if name.strip())
filtered_names_of(allowed_names) ==
    LET names == split(allowed_names, ",")
    IN {strip(names[i]) : i \in {j \in DOMAIN names : strip(names[j]) # <<>>}}

\* __format__ without the test for an empty allow-list after "$"
Builder__format__no_empty_check(h, self, format_spec, order) ==
    LET parted == partition(format_spec, "$")
        redact_with == parted[1]
        allowed_names == parted[3]
        filtered_names == filtered_names_of(allowed_names)
        invalid_names == filter_invalid(order)
    IN IF filtered_names = {} /\ allowed_names # <<>>
       THEN FormatError("No valid names provided after filtering.", <<>>)
       ELSE IF invalid_names # <<>>
       THEN FormatError("Invalid identifier(s) in allowed names: ",
                        join_with(<<",", " ">>, invalid_names))
       ELSE Return(render(h, self,
                          IF redact_with # <<>> THEN Some(redact_with) ELSE None,
                          IF allowed_names # <<>> THEN LambdaNameIn(filtered_names)
                                                  ELSE LambdaFalse))

\* ProtectedStringBuilder.__format__.  `order` is the order in which the set
\* filtered_names is iterated when the list invalid_names is built.
Builder__format__(h, self, format_spec, order) ==
    LET parted == partition(format_spec, "$")
        redact_with == parted[1]
        sep == parted[2]
        allowed_names == parted[3]
        filtered_names == filtered_names_of(allowed_names)
        invalid_names == filter_invalid(order)
    IN IF sep # <<>> /\ allowed_names = <<>>
       THEN FormatError("Format spec '$' requires allowed names.", <<>>)
       ELSE IF filtered_names = {} /\ allowed_names # <<>>
       THEN FormatError("No valid names provided after filtering.", <<>>)
       ELSE IF invalid_names # <<>>
       THEN FormatError("Invalid identifier(s) in allowed names: ",
                        join_with(<<",", " ">>, invalid_names))
       ELSE Return(render(h, self,
                          IF redact_with # <<>> THEN Some(redact_with) ELSE None,
                          IF allowed_names # <<>> THEN LambdaNameIn(filtered_names)
                                                  ELSE LambdaFalse))

\* ProtectedString.__format__ that drops the format spec
PS__format__drops_spec(h, self, format_spec, order) ==
    LET builder == Builder__init__(h, <<self>>)
    IN Builder__format__(builder, builder.obj, <<>>, <<>>)

\* ProtectedString.__format__: format(ProtectedStringBuilder(self), format_spec)
PS__format__(h, self, format_spec, order) ==
    LET builder == Builder__init__(h, <<self>>)
    IN Builder__format__(builder, builder.obj, format_spec, order)

\* An operand of + / += that is a builder object (the other operands are
\* list elements: a str or a ProtectedString leaf)
BuilderRef(o) == [kind |-> "ProtectedStringBuilder", obj |-> o]
isinstance_Builder(x) == x.kind = "ProtectedStringBuilder"

\* ProtectedStringBuilder.add
add(h, self, string, name, hide_name) ==
    LET item == IF name # <<>>
                THEN IF string.kind = "str"
                     THEN ProtectedString(string.value, name, hide_name)
                     ELSE ProtectedStringOf(string, name, hide_name)
                ELSE string
    IN [strings |-> h.strings,
        lists |-> [h.lists EXCEPT ![h.strings[self]] = Append(@, item)],
        obj |-> self]

\* __add__ that extends self's own list and hands it to the new builder
Builder__add__shared_list(h, self, other) ==
    [strings |-> Append(h.strings, h.strings[self]),
     lists |-> [h.lists EXCEPT ![h.strings[self]] =
                  @ \o (IF isinstance_Builder(other) THEN contents(h, other.obj)
                                                     ELSE <<other>>)],
     obj |-> Len(h.strings) + 1]

\* ProtectedStringBuilder.__add__
Builder__add__(h, self, other) ==
    IF isinstance_Builder(other)
    THEN Builder__init__(h, contents(h, self) \o contents(h, other.obj))
    ELSE Builder__init__(h, contents(h, self) \o <<other>>)

\* ProtectedStringBuilder.__radd__
Builder__radd__(h, self, other) ==
    Builder__init__(h, <<other>> \o contents(h, self))

\* __iadd__ that returns self + other, a new builder
Builder__iadd__returns_copy(h, self, other) == Builder__add__(h, self, other)

\* ProtectedStringBuilder.__iadd__
Builder__iadd__(h, self, other) ==
    IF isinstance_Builder(other)
    THEN [strings |-> h.strings,
          lists |-> [h.lists EXCEPT ![h.strings[self]] = @ \o contents(h, other.obj)],
          obj |-> self]
    ELSE add(h, self, other, <<>>, FALSE)

\* The loop of the `value` property over the rest of the list.  `result`
\* starts as a str; `result += item.value` with item.value a ProtectedString
\* is ProtectedString.__radd__, which makes a builder of the two, and from
\* then on += is ProtectedStringBuilder.__iadd__.
RECURSIVE value_from(_, _)
value_from(strs, result) ==
    IF strs = <<>> THEN result
    ELSE LET item == Head(strs)
             piece == IF isinstance_ProtectedString(item) /\ value_type(item) # "str"
                      THEN item.value
                      ELSE Str(item.value)
         IN value_from(Tail(strs),
                IF result.type = "str"
                THEN IF piece.kind = "str"
                     THEN [result EXCEPT !.s = @ \o piece.value]
                     ELSE [type |-> "ProtectedStringBuilder", s |-> <<>>,
                           parts |-> <<Str(result.s), piece>>]
                ELSE [result EXCEPT !.parts = Append(@, piece)])

\* ProtectedStringBuilder.value (a property): what it returns, a str s or,
\* when a value was not a str, a new builder of parts
Builder_value(h, self) ==
    value_from(contents(h, self), [type |-> "str", s |-> <<>>, parts |-> <<>>])

\* ProtectedString.__add__ (other a str or a leaf)
PS__add__(h, self, other) == Builder__init__(h, <<self, other>>)

\* ProtectedString.__radd__ (other a str or a leaf)
PS__radd__(h, self, other) == Builder__init__(h, <<other, self>>)

\* ProtectedString.__iadd__: return self + other
PS__iadd__(h, self, other) == PS__add__(h, self, other)

-----------------------------------------------------------------------------
(* Python objects held by a Container or a Result *)

\* An object that is not a Result: its type and what tells it from the other
\* objects of that type.  Two exception objects are the same object exactly
\* when the records are equal.
Object(type, id) == [wrap |-> "", type |-> type, id |-> id]
PyNone == Object("NoneType", "None")

\* an outcome of a call: an exception raised, or a value returned
Raise(exc) == [raised |-> TRUE, exc |-> exc, out |-> PyNone]
Returned(out) == [raised |-> FALSE, exc |-> PyNone, out |-> out]

-----------------------------------------------------------------------------
(* tramp.containers.Container *)

\* the keyword arguments of Container(...): none, or default=value
NoKwargs == [has_default |-> FALSE, default |-> PyNone]
Default(value) == [has_default |-> TRUE, default |-> value]

\* Container._process_args: the pair (_set, _value)
_process_args(args, kwargs) ==
    IF Len(args) > 0 THEN <<TRUE, args[1]>>
    ELSE IF kwargs.has_default THEN <<TRUE, kwargs.default>>
    ELSE <<FALSE, PyNone>>

\* Container.__init__
Container__init__(args, kwargs) ==
    LET processed == _process_args(args, kwargs)
    IN [_set |-> processed[1], _value |-> processed[2]]

\* Container.never_set (a property)
Container_never_set(self) == self._set = FALSE

\* raise ValueError("No value has been set on the container.")
NoValueSet == Object("ValueError", "No value has been set on the container.")

\* Container.value (a property)
Container_value(self) ==
    IF Container_never_set(self) THEN Raise(NoValueSet) ELSE Returned(self._value)

\* set that stores the value and leaves the flag as it was
Container_set_keeps_flag(self, value) == [self EXCEPT !._value = value]

\* Container.set: the container afterwards
Container_set(self, value) == [self EXCEPT !._value = value, !._set = TRUE]

\* value_or that takes a stored None for "nothing stored"
Container_value_or_unless_none(self, default) ==
    IF self._value # PyNone THEN self._value ELSE default

\* Container.value_or
Container_value_or(self, default) == IF self._set THEN self._value ELSE default

\* the container part of the state where no Container is in use
NothingSupplied == [any |-> FALSE, last |-> PyNone]
NoContainer ==
    /\ container = Container__init__(<<>>, NoKwargs)
    /\ supplied = NothingSupplied
    /\ block = "none"

-----------------------------------------------------------------------------
(* Inputs *)

Text == Str(<<"o">>)
Dollar == Str(<<"$">>)
Foo == ProtectedString(<<"S">>, <<"a">>, FALSE)
FooUpper == ProtectedString(<<"T">>, <<"A">>, FALSE)
Unnamed == ProtectedString(<<"*">>, <<>>, FALSE)
Hidden == ProtectedString(<<"V">>, <<"a">>, TRUE)
Under == ProtectedString(<<"W">>, <<"a","_","b">>, FALSE)
Mixed == ProtectedString(<<>>, <<"a","B">>, FALSE)

Leaves == {Foo, FooUpper, Unnamed, Hidden, Under, Mixed}
Texts == {Text, Dollar}
Parts == Texts \cup Leaves

\* what the heap operations are exercised with
HeapLeaves == {ProtectedString(<<"o">>, <<"b">>, FALSE)}
HeapTexts == {Text}
HeapParts == HeapTexts \cup HeapLeaves

Markers == {None, Some(<<"*">>), Some(<<>>)}
Names == {<<"a">>, <<"A">>, <<"a","_","b">>, <<>>}
Policies ==
    {AllowedNone}
    \cup {Container(ns) : ns \in SUBSET Names}
    \cup {Predicate(acc) : acc \in {Leaves, {}, {Hidden, Unnamed}, {Foo, Mixed}}}

RECURSIVE SeqsUpTo(_, _)
SeqsUpTo(S, n) ==
    IF n = 0 THEN {<<>>}
    ELSE LET shorter == SeqsUpTo(S, n - 1)
         IN shorter \cup {Append(s, x) : s \in {q \in shorter : Len(q) = n - 1}, x \in S}

-----------------------------------------------------------------------------
(* Specification Spec: building and combining builders *)

Init ==
    /\ strings = <<>>
    /\ lists = <<>>
    /\ ret = [op |-> "start"]
    /\ NoContainer

\* the step taken by an operation that yields heap r and builder r.obj
Becomes(r, opname, self, other) ==
    /\ strings' = r.strings
    /\ lists' = r.lists
    /\ UNCHANGED <<container, supplied, block>>
    /\ ret' = [op |-> opname, self |-> self, other |-> other, obj |-> r.obj]

CanAllocate == Len(strings) < MaxObjs

\* the number of elements operand `other` stands for
operand_len(other) ==
    IF isinstance_Builder(other) THEN Len(contents(Heap, other.obj)) ELSE 1

\* ProtectedStringBuilder(*parts)
New ==
    /\ CanAllocate
    /\ \E parts \in SeqsUpTo(HeapParts, 2) :
         Becomes(Builder__init__(Heap, parts), "__init__", <<>>, parts)

\* leaf + other
LeafAdd ==
    /\ CanAllocate
    /\ \E self \in HeapLeaves, other \in HeapParts :
         Becomes(PS__add__(Heap, self, other), "PS.__add__", self, other)

\* "text" + leaf
LeafRadd ==
    /\ CanAllocate
    /\ \E self \in HeapLeaves, other \in HeapTexts :
         Becomes(PS__radd__(Heap, self, other), "PS.__radd__", self, other)

\* leaf += other
LeafIadd ==
    /\ CanAllocate
    /\ \E self \in HeapLeaves, other \in HeapParts :
         Becomes(PS__iadd__(Heap, self, other), "PS.__iadd__", self, other)

\* builder + other
Concat ==
    /\ CanAllocate
    /\ \E self \in Objs, other \in HeapParts \cup {BuilderRef(o) : o \in Objs} :
         /\ Len(contents(Heap, self)) + operand_len(other) <= MaxParts
         /\ Becomes(Builder__add__(Heap, self, other), "__add__", self, other)

\* other + builder, other a str or a leaf
ConcatReflected ==
    /\ CanAllocate
    /\ \E self \in Objs, other \in HeapParts :
         /\ Len(contents(Heap, self)) + 1 <= MaxParts
         /\ Becomes(Builder__radd__(Heap, self, other), "__radd__", self, other)

\* builder += other
ExtendInPlace ==
    \E self \in Objs, other \in HeapParts \cup {BuilderRef(o) : o \in Objs} :
        /\ Len(contents(Heap, self)) + operand_len(other) <= MaxParts
        /\ Becomes(Builder__iadd__(Heap, self, other), "__iadd__", self, other)

\* builder.add(string) and builder.add(string, name, hide_name=...)
Append_ ==
    \E self \in Objs, string \in HeapParts, name \in {<<>>, <<"b">>}, hide_name \in {FALSE} :
        /\ Len(contents(Heap, self)) + 1 <= MaxParts
        /\ name # <<>> => string.kind = "str"
        /\ strings' = strings
        /\ lists' = add(Heap, self, string, name, hide_name).lists
        /\ UNCHANGED <<container, supplied, block>>
        /\ ret' = [op |-> "add", self |-> self, other |-> string,
                   name |-> name, hide_name |-> hide_name, obj |-> self]

Next ==
    \/ New
    \/ LeafAdd
    \/ LeafRadd
    \/ LeafIadd
    \/ Concat
    \/ ConcatReflected
    \/ ExtendInPlace
    \/ Append_

Spec == Init /\ [][Next]_vars

-----------------------------------------------------------------------------
(* Specification RenderSpec: render, join, repr and format applied to a      *)
(* builder whose parts are drawn at the start                                *)

MaxRenderParts == 2    \* longest part list rendered

EmptyHeap == [strings |-> <<>>, lists |-> <<>>]

InitRender ==
    \E parts \in SeqsUpTo(Parts, MaxRenderParts) :
        LET builder == Builder__init__(EmptyHeap, parts)
        IN /\ strings = builder.strings
           /\ lists = builder.lists
           /\ ret = [op |-> "start"]
           /\ NoContainer

\* the orders in which a set can be iterated
Orders(S) == {s \in [1..Cardinality(S) -> S] : Range(s) = S}

\* format specs used where rendering, not parsing, is the subject
SampleSpecs == {<<>>, <<"*">>, <<"$","a">>, <<"*","$","a">>, <<"$","a",",","A">>,
                <<"$"," ","a"," ",","," ">>, <<"$">>, <<"$","1">>}

\* render, join, repr and format leave the heap as it is, so one call per
\* behaviour shows all they do
NotCalled == ret.op = "start"

Render ==
    NotCalled /\
    \E self \in Objs, redact_with \in Markers, allowed \in Policies :
        /\ ret' = [op |-> "render", parts |-> contents(Heap, self),
                   redact_with |-> redact_with, allowed |-> allowed,
                   items |-> render_items(contents(Heap, self), redact_with, allowed),
                   out |-> render(Heap, self, redact_with, allowed)]
        /\ UNCHANGED <<strings, lists, container, supplied, block>>

\* ProtectedString.join(parts, redact_with, allowed=allowed), parts being a
\* list of the elements drawn at the start
Join ==
    NotCalled /\
    \E self \in Objs, redact_with \in Markers, allowed \in Policies :
        LET parts == contents(Heap, self) IN
        /\ ret' = [op |-> "join", parts |-> parts,
                   redact_with |-> redact_with, allowed |-> allowed,
                   items |-> render_items(parts, redact_with, allowed),
                   out |-> PS_join(Heap, parts, redact_with, allowed)]
        /\ UNCHANGED <<strings, lists, container, supplied, block>>

\* repr(leaf) for a leaf of the list
Repr ==
    NotCalled /\
    \E self \in Objs :
        \E i \in DOMAIN contents(Heap, self) :
            LET leaf == contents(Heap, self)[i] IN
            /\ isinstance_ProtectedString(leaf)
            /\ ret' = [op |-> "repr", self |-> leaf, out |-> repr(leaf)]
            /\ UNCHANGED <<strings, lists, container, supplied, block>>

\* what __format__ passes on to render, for the record of a successful call
parsed_redact_with(format_spec) ==
    IF partition(format_spec, "$")[1] # <<>>
    THEN Some(partition(format_spec, "$")[1]) ELSE None
parsed_allowed(format_spec) ==
    IF partition(format_spec, "$")[3] # <<>>
    THEN LambdaNameIn(filtered_names_of(partition(format_spec, "$")[3]))
    ELSE LambdaFalse

FormatRecord(opname, parts, format_spec, order, res) ==
    [op |-> opname, parts |-> parts, format_spec |-> format_spec, order |-> order,
     raised |-> res.raised, error |-> res.error,
     redact_with |-> parsed_redact_with(format_spec),
     allowed |-> parsed_allowed(format_spec),
     items |-> IF res.raised THEN <<>>
               ELSE render_items(parts, parsed_redact_with(format_spec),
                                 parsed_allowed(format_spec)),
     out |-> res.out]

\* format(builder, format_spec)
Format(specs) ==
    NotCalled /\
    \E self \in Objs, format_spec \in specs :
        \E order \in Orders(filtered_names_of(partition(format_spec, "$")[3])) :
            /\ ret' = FormatRecord("__format__", contents(Heap, self), format_spec, order,
                                   Builder__format__(Heap, self, format_spec, order))
            /\ UNCHANGED <<strings, lists, container, supplied, block>>

\* format(leaf, format_spec) for a leaf of the list
LeafFormat(specs) ==
    NotCalled /\
    \E self \in Objs, format_spec \in specs :
        \E i \in DOMAIN contents(Heap, self) :
            \E order \in Orders(filtered_names_of(partition(format_spec, "$")[3])) :
                LET leaf == contents(Heap, self)[i] IN
                /\ isinstance_ProtectedString(leaf)
                /\ ret' = FormatRecord("PS.__format__", <<leaf>>, format_spec, order,
                                       PS__format__(Heap, leaf, format_spec, order))
                /\ UNCHANGED <<strings, lists, container, supplied, block>>

NextRender ==
    \/ Render
    \/ Join
    \/ Repr
    \/ Format(SampleSpecs)
    \/ LeafFormat(SampleSpecs)

RenderSpec == InitRender /\ [][NextRender]_vars

-----------------------------------------------------------------------------
(* Specification FormatSpec: every format spec string up to MaxSpecLen over  *)
(* FormatAlphabet, applied to a few builders and their leaves                *)

FormatAlphabet == {"*", "$", ",", " ", "a", "A", "1"}
SpecStrings == SeqsUpTo(FormatAlphabet, MaxSpecLen)

FormatSubjects == {<<Foo, Text, FooUpper>>, <<Unnamed, Hidden>>, <<Text>>}

InitFormat ==
    \E parts \in FormatSubjects :
        LET builder == Builder__init__(EmptyHeap, parts)
        IN /\ strings = builder.strings
           /\ lists = builder.lists
           /\ ret = [op |-> "start"]
           /\ NoContainer

NextFormat ==
    \/ Format(SpecStrings)
    \/ LeafFormat(SpecStrings)

FormatSpec == InitFormat /\ [][NextFormat]_vars

-----------------------------------------------------------------------------
(* Claims about rendering (RenderSpec) *)

\* a call that returned rendered text
Rendered ==
    \/ ret.op \in {"render", "join"}
    \/ ret.op \in {"__format__", "PS.__format__"} /\ ~ret.raised

\* whether the allow-policy holds for a leaf
PolicyAllows(allowed, leaf) ==
    CASE allowed.kind = "None" -> FALSE
      [] allowed.kind = "container" -> leaf.name \in allowed.names
      [] allowed.kind = "predicate" -> leaf \in allowed.accept
      [] allowed.kind = "lambda_name_in" -> leaf.name \in allowed.names
      [] allowed.kind = "lambda_false" -> FALSE

\* concatenation of a sequence of strings, from the left
RECURSIVE ConcatAll(_)
ConcatAll(seq) ==
    IF Len(seq) = 0 THEN <<>>
    ELSE ConcatAll(SubSeq(seq, 1, Len(seq) - 1)) \o seq[Len(seq)]

\* the text that stands for a leaf that is not revealed
Placeholder(leaf) ==
    IF leaf.name = <<>> \/ leaf.hide_name THEN Redacted
    ELSE RedactedOpen \o title(leaf.name) \o <<">">>
Redaction(redact_with, leaf) ==
    IF redact_with.isNone THEN Placeholder(leaf) ELSE redact_with.s

\* C1: allow takes precedence over the marker: in the output of render, join
\* and format, every leaf for which the allow-policy holds contributes exactly
\* its raw value, whatever marker was supplied.
C1_AllowTakesPrecedence ==
    Rendered =>
        /\ ret.out = ConcatAll(ret.items)
        /\ \A i \in DOMAIN ret.parts :
             (isinstance_ProtectedString(ret.parts[i])
                /\ PolicyAllows(ret.allowed, ret.parts[i]))
             => ret.items[i] = ret.parts[i].value

\* a leaf allowed by name is rendered as its value although a marker was given
C1_Witness ==
    /\ ret.op = "render"
    /\ ret.redact_with = Some(<<"*">>)
    /\ ret.allowed = Container({<<"a">>})
    /\ ret.parts = <<Foo, FooUpper>>
    /\ ret.out = <<"S", "*">>

\* C2: a leaf the allow-policy does not allow (or any leaf when there is no
\* allow-policy) contributes the marker when one was supplied and its default
\* placeholder otherwise; the contribution is the same whatever its value is.
C2_RedactedContribution ==
    Rendered =>
        /\ ret.out = ConcatAll(ret.items)
        /\ \A i \in DOMAIN ret.parts :
             (isinstance_ProtectedString(ret.parts[i])
                /\ ~PolicyAllows(ret.allowed, ret.parts[i]))
             => /\ ret.items[i] = Redaction(ret.redact_with, ret.parts[i])
                /\ \A v \in {<<>>, <<"S">>, <<"*">>, <<"Z", "Z">>} :
                     LET other == [ret.parts[i] EXCEPT !.value = v]
                     IN ~PolicyAllows(ret.allowed, other)
                        => _redact(other, ret.redact_with, ret.allowed) = ret.items[i]

\* no allow-policy, no marker: a hidden name gives <Redacted>, a shown one its title
C2_Witness ==
    /\ ret.op = "render"
    /\ ret.redact_with = None
    /\ ret.allowed = AllowedNone
    /\ ret.parts = <<Hidden, Foo>>
    /\ ret.out = Redacted \o RedactedOpen \o <<"A", ">">>

\* C3: render resolves the parts independently and in insertion order: the
\* output is the concatenation, in list order, of one contribution per part,
\* each what the part renders to on its own, and a plain str contributes
\* itself whatever the marker and the allow-policy are.
C3_InOrderIndependent ==
    Rendered =>
        /\ Len(ret.items) = Len(ret.parts)
        /\ ret.out = ConcatAll(ret.items)
        /\ ret.out = ConcatAll([i \in DOMAIN ret.parts |->
                               PS_join(EmptyHeap, <<ret.parts[i]>>,
                                       ret.redact_with, ret.allowed)])
        /\ \A i \in DOMAIN ret.parts :
             ~isinstance_ProtectedString(ret.parts[i])
             => /\ ret.items[i] = ret.parts[i].value
                /\ PS_join(EmptyHeap, <<ret.parts[i]>>, ret.redact_with, ret.allowed)
                     = ret.parts[i].value

\* a marker was supplied and the text before the redacted leaf is kept
C3_Witness ==
    /\ ret.op = "render"
    /\ ret.redact_with = Some(<<"*">>)
    /\ ret.allowed = AllowedNone
    /\ ret.parts = <<Text, Foo>>
    /\ ret.out = <<"o", "*">>

\* the name with its first character upper-cased and the rest lower-cased
CapitalizeFirst(s) == [i \in 1..Len(s) |-> IF i = 1 THEN upper(s[i]) ELSE lower(s[i])]

\* title case: a letter is upper-cased when no letter precedes it directly,
\* and lower-cased otherwise
RECURSIVE TitleCase(_, _)
TitleCase(s, after_letter) ==
    IF s = <<>> THEN <<>>
    ELSE <<IF after_letter THEN lower(Head(s)) ELSE upper(Head(s))>>
         \o TitleCase(Tail(s), IsCased(Head(s)))

ShownName(leaf) == leaf.name # <<>> /\ ~leaf.hide_name

\* C10 as stated: for a shown name the placeholder is "<Redacted N>", N the name
\* with only its leading character upper-cased (my_name gives My_name).
C10_LeadingCharacterOnly ==
    (ret.op = "repr" /\ ShownName(ret.self))
    => ret.out = RedactedOpen \o CapitalizeFirst(ret.self.name) \o <<">">>

\* C10 amended: for a shown name the placeholder is "<Redacted N>", N the name
\* in title case: every letter that starts the name or follows a character
\* that is not a letter is upper-cased, every other letter lower-cased, so a
\* letter after an underscore is capitalized (a_b gives A_B, aB gives Ab).
C10_TitleCasePlaceholder ==
    /\ (ret.op = "repr" /\ ShownName(ret.self))
       => /\ ret.out = RedactedOpen \o TitleCase(ret.self.name, FALSE) \o <<">">>
          /\ ret.self.name = <<"a","_","b">> => ret.out = RedactedOpen \o <<"A","_","B",">">>
          /\ ret.self.name = <<"a","B">> => ret.out = RedactedOpen \o <<"A","b",">">>
    /\ (ret.op = "render" /\ ret.redact_with.isNone)
       => \A i \in DOMAIN ret.parts :
            (isinstance_ProtectedString(ret.parts[i]) /\ ShownName(ret.parts[i])
               /\ ~PolicyAllows(ret.allowed, ret.parts[i]))
            => ret.items[i] = RedactedOpen \o TitleCase(ret.parts[i].name, FALSE) \o <<">">>

\* repr of the leaf named a_b
C10_Witness ==
    /\ ret.op = "repr"
    /\ ret.self = Under
    /\ ret.out = RedactedOpen \o <<"A","_","B",">">>

-----------------------------------------------------------------------------
(* Claims about combining builders (Spec) *)

\* the elements an operand of + or += stands for, in heap h
OperandParts(h, other) ==
    IF isinstance_Builder(other) THEN contents(h, other.obj) ELSE <<other>>

\* every builder of the heap before the step, but `except`, keeps its list
\* object and its elements
OthersUntouched(except) ==
    \A o \in DOMAIN strings \ except :
        /\ strings'[o] = strings[o]
        /\ contents(Heap', o) = contents(Heap, o)

\* this step is builder + other or other + builder, and it is pure
ConcatStepIsPure ==
    ret'.op \in {"__add__", "__radd__"} =>
        /\ ret'.obj \notin DOMAIN strings
        /\ ret'.obj \in DOMAIN strings'
        /\ \A o \in DOMAIN strings : strings'[ret'.obj] # strings'[o]
        /\ contents(Heap', ret'.obj) =
             (IF ret'.op = "__add__"
              THEN contents(Heap, ret'.self) \o OperandParts(Heap, ret'.other)
              ELSE OperandParts(Heap, ret'.other) \o contents(Heap, ret'.self))
        /\ OthersUntouched({})

\* this step is += or add, and it changes the builder it is applied to only
InPlaceStepIsLocal ==
    ret'.op \in {"__iadd__", "add"} => OthersUntouched({ret'.self})

\* C4: + is pure and non-aliasing: a + b is a new builder, distinct from the
\* operands and with a list of its own, whose parts are a's followed by b's;
\* the operands keep their parts; and a later += or add on the result, on a or
\* on b changes the parts of the builder it is applied to and of no other.
C4_ConcatPureNonAliasing == [][ConcatStepIsPure /\ InPlaceStepIsLocal]_vars

\* builders 1 and 2 were added into a third, and all three differ
C4_Witness ==
    /\ ret.op = "__add__"
    /\ isinstance_Builder(ret.other)
    /\ ret.other.obj # ret.self
    /\ contents(Heap, ret.self) # <<>>
    /\ contents(Heap, ret.other.obj) # <<>>
    /\ contents(Heap, ret.self) # contents(Heap, ret.other.obj)
    /\ contents(Heap, ret.obj) = contents(Heap, ret.self) \o contents(Heap, ret.other.obj)

\* this step is builder += other: same object, old parts a prefix of the
\* new, grown by the operand's parts
ExtendStepAppends ==
    ret'.op = "__iadd__" =>
        LET before == contents(Heap, ret'.self)
            after == contents(Heap', ret'.self)
            operand == OperandParts(Heap, ret'.other)
        IN /\ ret'.obj = ret'.self
           /\ strings' = strings
           /\ Len(after) = Len(before) + Len(operand)
           /\ Len(operand) = (IF isinstance_Builder(ret'.other)
                              THEN Len(contents(Heap, ret'.other.obj)) ELSE 1)
           /\ SubSeq(after, 1, Len(before)) = before
           /\ SubSeq(after, Len(before) + 1, Len(after)) = operand

\* C5: += on a builder is append-only and keeps identity: it returns the same
\* object, the parts before are a prefix of the parts after, and the count
\* grows by 1 for a str or leaf operand and by the operand's count for a
\* builder operand, the builder itself included.
C5_ExtendInPlaceAppends == [][ExtendStepAppends]_vars

\* a builder of one part was extended with itself
C5_Witness ==
    /\ ret.op = "__iadd__"
    /\ ret.other = BuilderRef(ret.self)
    /\ ret.obj = ret.self
    /\ contents(Heap, ret.self) = <<Text, Text>>

-----------------------------------------------------------------------------
(* Claims about format specs (FormatSpec) *)

Formatted == ret.op \in {"__format__", "PS.__format__"}

HasDollar(spec) == \E i \in DOMAIN spec : spec[i] = "$"
DollarAt(spec) == CHOOSE i \in DOMAIN spec :
                     spec[i] = "$" /\ \A j \in 1..(i-1) : spec[j] # "$"
\* the text before the first "$", the whole spec when it has none
BeforeDollar(spec) ==
    IF HasDollar(spec) THEN SubSeq(spec, 1, DollarAt(spec) - 1) ELSE spec
AfterDollar(spec) ==
    IF HasDollar(spec) THEN SubSeq(spec, DollarAt(spec) + 1, Len(spec)) ELSE <<>>

\* spec[a..b] is a token of the allow-list: it lies after the first "$",
\* holds no comma, neither starts nor ends with whitespace, and only
\* whitespace separates it from the comma (or the "$", or the end) on each side
IsToken(spec, a, b) ==
    /\ HasDollar(spec)
    /\ DollarAt(spec) < a /\ a <= b /\ b <= Len(spec)
    /\ \A k \in a..b : spec[k] # ","
    /\ spec[a] \notin Whitespace /\ spec[b] \notin Whitespace
    /\ \E l \in DollarAt(spec)..(a-1) :
         /\ l = DollarAt(spec) \/ spec[l] = ","
         /\ \A k \in (l+1)..(a-1) : spec[k] \in Whitespace
    /\ \E r \in (b+1)..(Len(spec)+1) :
         /\ r = Len(spec) + 1 \/ spec[r] = ","
         /\ \A k \in (b+1)..(r-1) : spec[k] \in Whitespace

Tokens(spec) ==
    {SubSeq(spec, a, b) : <<a, b>> \in
        {p \in (DOMAIN spec) \X (DOMAIN spec) : IsToken(spec, p[1], p[2])}}

\* letters, digits and underscores, not starting with a digit
BareIdentifier(s) ==
    /\ s # <<>>
    /\ s[1] \notin Digits
    /\ \A i \in DOMAIN s :
         s[i] \in Range(LowerLetters) \cup Range(UpperLetters) \cup Digits \cup {"_"}

SpecMarker(spec) == IF BeforeDollar(spec) = <<>> THEN None ELSE Some(BeforeDollar(spec))

\* what part p contributes when formatted with spec
ExpectedContribution(spec, p) ==
    IF ~isinstance_ProtectedString(p) THEN p.value
    ELSE IF HasDollar(spec) /\ p.name \in Tokens(spec) THEN p.value
    ELSE Redaction(SpecMarker(spec), p)

\* C6: when the spec parses, a leaf is emitted unredacted if and only if the
\* spec has a "$" and the leaf's name equals, case-sensitively, one of the
\* comma-separated tokens after it, each stripped of surrounding whitespace
\* and the empty ones dropped; so an unnamed leaf is never revealed.
C6_RevealedIffNamed ==
    (Formatted /\ ~ret.raised) =>
        /\ ret.out = ConcatAll([i \in DOMAIN ret.parts |->
                                  ExpectedContribution(ret.format_spec, ret.parts[i])])
        /\ \A i \in DOMAIN ret.parts :
             (isinstance_ProtectedString(ret.parts[i]) /\ ret.parts[i].name = <<>>)
             => ExpectedContribution(ret.format_spec, ret.parts[i])
                  = Redaction(SpecMarker(ret.format_spec), ret.parts[i])

\* "$ a," reveals the leaf named a and not the one named A
C6_Witness ==
    /\ ret.op = "__format__"
    /\ ret.format_spec = <<"$", " ", "a", ",">>
    /\ ret.parts = <<Foo, Text, FooUpper>>
    /\ ~ret.raised
    /\ ret.out = <<"S", "o">> \o RedactedOpen \o <<"A", ">">>

\* C7: formatting with spec S is render with the parsed pair: the marker is the
\* text before the first "$" (all of S without a "$", no marker when empty),
\* the allow-policy is membership in the parsed names (reject-all without a
\* "$"); and a leaf formats as the one-part builder holding it does.
C7_FormatIsRender ==
    /\ (Formatted /\ ~ret.raised) =>
          ret.out = PS_join(EmptyHeap, ret.parts, SpecMarker(ret.format_spec),
                            IF HasDollar(ret.format_spec)
                            THEN Container(Tokens(ret.format_spec))
                            ELSE AllowedNone)
    /\ ret.op = "PS.__format__" =>
          LET builder == Builder__init__(EmptyHeap, ret.parts)
              res == Builder__format__(builder, builder.obj, ret.format_spec, ret.order)
          IN /\ Len(ret.parts) = 1
             /\ ret.raised = res.raised
             /\ ret.error = res.error
             /\ ret.out = res.out

\* a leaf formatted with a marker and its own name
C7_Witness ==
    /\ ret.op = "PS.__format__"
    /\ ret.format_spec = <<"*", "$", "a">>
    /\ ret.parts = <<Hidden>>
    /\ ~ret.raised
    /\ ret.out = <<"V">>

RequiresNames == "Format spec '$' requires allowed names."
NoValidNames == "No valid names provided after filtering."
InvalidIdentifiers == "Invalid identifier(s) in allowed names: "

\* C8: a spec with a "$" and no usable name is rejected, whatever precedes the
\* "$": "requires allowed names" when nothing follows the "$", "no valid names"
\* when only whitespace and commas follow it.
C8_DollarNeedsNames ==
    (Formatted /\ HasDollar(ret.format_spec)) =>
        LET after == AfterDollar(ret.format_spec) IN
        /\ after = <<>> =>
             /\ ret.raised /\ ret.out = <<>>
             /\ ret.error.type = "FormatError" /\ ret.error.literal = RequiresNames
        /\ (after # <<>> /\ \A k \in DOMAIN after : after[k] \in Whitespace \cup {","}) =>
             /\ ret.raised /\ ret.out = <<>>
             /\ ret.error.type = "FormatError" /\ ret.error.literal = NoValidNames

\* a marker, then "$", then a blank and a comma
C8_Witness ==
    /\ ret.op = "__format__"
    /\ ret.format_spec = <<"*", "$", " ", ",">>
    /\ ret.raised
    /\ ret.error.literal = NoValidNames

\* the names a message lists, separated by ", "
ListedIn(detail) ==
    LET listed == split(detail, ",")
    IN {strip(listed[i]) : i \in DOMAIN listed} \ {<<>>}

\* C9: if a token of the allow-list, trimmed and not empty, is no bare
\* identifier, formatting raises the "invalid identifier" error, its message
\* lists every such token, and nothing is rendered.
C9_InvalidIdentifiersListed ==
    LET offending == {n \in Tokens(ret.format_spec) : ~BareIdentifier(n)} IN
    (Formatted /\ offending # {}) =>
        /\ ret.raised /\ ret.out = <<>>
        /\ ret.error.type = "FormatError" /\ ret.error.literal = InvalidIdentifiers
        /\ ListedIn(ret.error.detail) = offending

\* two offending tokens beside a valid one that names a leaf
C9_Witness ==
    /\ ret.op = "__format__"
    /\ ret.format_spec = <<"$", "1", ",", "*">>
    /\ ret.parts = <<Foo, Text, FooUpper>>
    /\ ret.raised
    /\ ret.error.detail = <<"*", ",", " ", "1">>


-----------------------------------------------------------------------------
(* Specification AppendSpec: builders grown by construction, +, += and add,  *)
(* add being called with or without a name on a str or a ProtectedString,    *)
(* then rendered                                                             *)

\* the ProtectedStrings a builder of this specification can hold
AppendSegments ==
    HeapLeaves \cup {ProtectedStringOf(leaf, <<"b">>, FALSE) : leaf \in HeapLeaves}

\* lambda string: True
AcceptEvery == Predicate(AppendSegments)

\* no policy, a collection of names, a predicate that holds of everything
AppendPolicies == {AllowedNone, Container({<<"b">>}), AcceptEvery}
AppendMarkers == {None, Some(<<"*">>)}

\* builder.add(leaf, name): a name given together with a ProtectedString
AppendSegmentNamed ==
    \E self \in Objs, string \in HeapLeaves, name \in {<<"b">>}, hide_name \in {FALSE} :
        /\ Len(contents(Heap, self)) + 1 <= MaxParts
        /\ strings' = strings
        /\ lists' = add(Heap, self, string, name, hide_name).lists
        /\ UNCHANGED <<container, supplied, block>>
        /\ ret' = [op |-> "add", self |-> self, other |-> string,
                   name |-> name, hide_name |-> hide_name, obj |-> self]

\* builder.render(redact_with, allowed) on a builder of the heap
RenderBuilt ==
    \E self \in Objs, redact_with \in AppendMarkers, allowed \in AppendPolicies :
        LET res == render_outcome(Heap, self, redact_with, allowed) IN
        /\ ret' = [op |-> "render", self |-> self, parts |-> contents(Heap, self),
                   redact_with |-> redact_with, allowed |-> allowed,
                   raised |-> res.raised, error |-> res.error, out |-> res.out]
        /\ UNCHANGED <<strings, lists, container, supplied, block>>

\* builder.value on a builder of the heap
ReadValue ==
    \E self \in Objs :
        /\ ret' = [op |-> "value", self |-> self, parts |-> contents(Heap, self),
                   out |-> Builder_value(Heap, self)]
        /\ UNCHANGED <<strings, lists, container, supplied, block>>

NextAppend ==
    \/ New
    \/ Concat
    \/ ExtendInPlace
    \/ Append_
    \/ AppendSegmentNamed
    \/ RenderBuilt
    \/ ReadValue

AppendSpec == Init /\ [][NextAppend]_vars

\* C11: render never fails: whatever builder has been reached by
\* construction, +, += and add (with or without a name, on a str or on a
\* ProtectedString), and whatever marker and allow-policy are given, render
\* returns a string and raises no error.
C11_RenderNeverFails ==
    ret.op = "render" => ~ret.raised

\* the in-order concatenation of the values of the parts
PlainValue(parts) == ConcatAll([i \in 1..Len(parts) |-> parts[i].value])

\* C12: round trip: for a builder reached by construction, +, += and add,
\* render with a policy that allows every segment returns, whatever the
\* marker, what the `value` property returns: the values of the parts
\* concatenated in order.
C12_RenderAllAllowedIsValue ==
    ret.op = "value" =>
        \A redact_with \in AppendMarkers :
            LET res == render_outcome(Heap, ret.self, redact_with, AcceptEvery) IN
            /\ ~res.raised
            /\ ret.out.type = "str"
            /\ res.out = ret.out.s
            /\ (\A i \in DOMAIN ret.parts : value_type(ret.parts[i]) = "str")
                   => ret.out.s = PlainValue(ret.parts)

-----------------------------------------------------------------------------
(* Specification ContainerSpec: one Container, constructed with or without   *)
(* a default, then set and read in any order                                 *)

ContainerValues ==
    {PyNone, Object("int", "0"), Object("int", "1"), Object("int", "42"),
     Object("int", "100"), Object("str", ""), Object("str", "actual"),
     Object("str", "default")}

\* Container(), Container(value) or Container(default=value)
InitContainer ==
    \E args \in {<<>>} \cup {<<value>> : value \in ContainerValues},
       kwargs \in {NoKwargs} \cup {Default(value) : value \in ContainerValues} :
        /\ args = <<>> \/ ~kwargs.has_default
        /\ container = Container__init__(args, kwargs)
        /\ supplied = IF args # <<>> THEN [any |-> TRUE, last |-> args[1]]
                      ELSE IF kwargs.has_default THEN [any |-> TRUE, last |-> kwargs.default]
                      ELSE NothingSupplied
        /\ ret = [op |-> "__init__", args |-> args, kwargs |-> kwargs]
        /\ block = "none"
        /\ strings = <<>>
        /\ lists = <<>>

\* container.set(value)
ContainerSet ==
    \E value \in ContainerValues :
        /\ container' = Container_set(container, value)
        /\ supplied' = [any |-> TRUE, last |-> value]
        /\ ret' = [op |-> "set", value |-> value,
                   never_set |-> Container_never_set(container)]
        /\ UNCHANGED <<strings, lists, block>>

\* container.value
ContainerValue ==
    LET res == Container_value(container) IN
    /\ ret' = [op |-> "value", raised |-> res.raised, exc |-> res.exc, out |-> res.out]
    /\ UNCHANGED <<strings, lists, container, supplied, block>>

\* container.value_or(default)
ContainerValueOr ==
    \E default \in ContainerValues :
        /\ ret' = [op |-> "value_or", default |-> default,
                   out |-> Container_value_or(container, default)]
        /\ UNCHANGED <<strings, lists, container, supplied, block>>

\* container.never_set
ContainerNeverSet ==
    /\ ret' = [op |-> "never_set", out |-> Container_never_set(container)]
    /\ UNCHANGED <<strings, lists, container, supplied, block>>

NextContainer ==
    \/ ContainerSet
    \/ ContainerValue
    \/ ContainerValueOr
    \/ ContainerNeverSet

ContainerSpec == InitContainer /\ [][NextContainer]_vars

\* what reading `value` gives, and what value_or(default) gives
ValueReadIsRight ==
    ret.op = "value" =>
        /\ ret.raised <=> ~supplied.any
        /\ ret.raised => ret.exc.type = "ValueError"
        /\ ~ret.raised => ret.out = supplied.last
ValueOrReadIsRight ==
    ret.op = "value_or" =>
        ret.out = IF supplied.any THEN supplied.last ELSE ret.default

\* C13: after any sequence of Container operations, reading `value` raises
\* ValueError exactly when the caller never supplied a value (not as the
\* constructor's positional argument, not as default=, not by set) and
\* otherwise returns the value supplied last; value_or(d) returns d in
\* exactly the states where `value` raises and the stored value otherwise;
\* and neither read changes the container.
C13_ReadsFollowSuppliedValue ==
    /\ [](ValueReadIsRight /\ ValueOrReadIsRight)
    /\ [][ret'.op \in {"value", "value_or"} => container' = container]_vars

\* a None that was set is read back by value_or, not the default
C13_Witness ==
    /\ ret.op = "value_or"
    /\ supplied.any
    /\ supplied.last = PyNone
    /\ ret.default # PyNone
    /\ ret.out = PyNone

\* C14: never_set is monotone: it is true at the start exactly when the
\* container was constructed without a default, it is false after every set
\* (whatever the value, None included), and once false it stays false.
C14_NeverSetMonotone ==
    /\ [](ret.op = "__init__" =>
            (Container_never_set(container)
                <=> ret.args = <<>> /\ ~ret.kwargs.has_default))
    /\ [][ret'.op = "set" => ~Container_never_set(container')]_vars
    /\ [][~Container_never_set(container) => ~Container_never_set(container')]_vars

\* the first set of a container constructed without a default, the value None
C14_Witness ==
    /\ ret.op = "set"
    /\ ret.never_set
    /\ ret.value = PyNone
    /\ ~Container_never_set(container)

-----------------------------------------------------------------------------
(* tramp.results: Result, Value, Error *)

ExceptionTypes ==
    {"ValueError", "RuntimeError", "KeyError", "TypeError", "AttributeError",
     "ResultWasAnErrorException", "ResultWasNeverSetException"}

\* Value.__init__ and Error.__init__: a Result object is the object it wraps
\* together with the class that wraps it
Value(value) == [wrap |-> "Value", type |-> value.type, id |-> value.id]
Error(error) == [wrap |-> "Error", type |-> error.type, id |-> error.id]

\* self._value of a Value, self._error of an Error
wrapped(self) == Object(self.type, self.id)

\* Result.value_or: the body is `pass`, so the call returns None
Result_value_or(self, default) == Returned(PyNone)

\* Value.value (a property)
Value_value(self) == Returned(wrapped(self))

\* Value has no value_or of its own: the call goes to Result.value_or
Value_value_or(self, default) == Result_value_or(self, default)

\* Value.__bool__ and, for an Error, Result.__bool__
Value__bool__(self) == TRUE
Result__bool__(self) == FALSE

\* The attribute self.error of an Error: `error` is defined as a method (not
\* a property), so the attribute is the bound method
Error_error_attribute(self) == Object("method", "Error.error")

\* Error.error(): the method called
Error_error(self) == Returned(wrapped(self))

\* `raise exc from cause`: the cause has to be an exception (or None);
\* otherwise the statement raises TypeError instead of exc
raise_from(exc, cause) ==
    IF cause.wrap = "" /\ cause.type \in ExceptionTypes \cup {"NoneType"}
    THEN Raise(exc)
    ELSE Raise(Object("TypeError", "exception causes must derive from BaseException"))

\* Error.value (a property)
Error_value(self) ==
    raise_from(Object("ResultWasAnErrorException", "The result was an error."),
               Error_error_attribute(self))

\* Error.value_or
Error_value_or(self, default) == Returned(default)

-----------------------------------------------------------------------------
(* Specification ValueSpec: value, value_or and bool() applied to a Value    *)
(* and to an Error                                                           *)

Exceptions ==
    {Object("ValueError", "test error"), Object("ValueError", "original"),
     Object("RuntimeError", "test"), Object("KeyError", "key")}

\* the step of a call on `self` that ends as `res`
Called(opname, self, default, res) ==
    /\ ret' = [op |-> opname, self |-> self, wrapped |-> wrapped(self),
               default |-> default,
               raised |-> res.raised, exc |-> res.exc, out |-> res.out]
    /\ UNCHANGED <<strings, lists, container, supplied, block>>

ValueValue ==
    NotCalled /\
    \E value \in ContainerValues :
        Called("Value.value", Value(value), PyNone, Value_value(Value(value)))

ValueValueOr ==
    NotCalled /\
    \E value \in ContainerValues, default \in ContainerValues :
        Called("Value.value_or", Value(value), default,
               Value_value_or(Value(value), default))

ValueBool ==
    NotCalled /\
    \E value \in ContainerValues :
        /\ ret' = [op |-> "Value.__bool__", self |-> Value(value),
                   out |-> Value__bool__(Value(value))]
        /\ UNCHANGED <<strings, lists, container, supplied, block>>

ErrorValue ==
    NotCalled /\
    \E error \in Exceptions :
        Called("Error.value", Error(error), PyNone, Error_value(Error(error)))

ErrorValueOr ==
    NotCalled /\
    \E error \in Exceptions, default \in ContainerValues :
        Called("Error.value_or", Error(error), default,
               Error_value_or(Error(error), default))

ErrorBool ==
    NotCalled /\
    \E error \in Exceptions :
        /\ ret' = [op |-> "Error.__bool__", self |-> Error(error),
                   out |-> Result__bool__(Error(error))]
        /\ UNCHANGED <<strings, lists, container, supplied, block>>

NextValue ==
    \/ ValueValue
    \/ ValueValueOr
    \/ ValueBool
    \/ ErrorValue
    \/ ErrorValueOr
    \/ ErrorBool

ValueSpec == Init /\ [][NextValue]_vars

\* C15: reading `value` of an Error raises ResultWasAnErrorException and no
\* other type of exception, whatever exception the Error wraps; and
\* value_or(d) of an Error returns d.
C15_ErrorValueRaisesResultWasAnError ==
    /\ ret.op = "Error.value" =>
           ret.raised /\ ret.exc.type = "ResultWasAnErrorException"
    /\ ret.op = "Error.value_or" => ~ret.raised /\ ret.out = ret.default

\* C20: value_or of a Value: for every wrapped value v and default d,
\* Value(v).value_or(d) returns v, as Value(v).value returns v, and
\* bool(Value(v)) is true even when v is falsy or None.
C20_ValueOrReturnsWrappedValue ==
    /\ ret.op = "Value.value_or" => ~ret.raised /\ ret.out = ret.wrapped
    /\ ret.op = "Value.value" => ~ret.raised /\ ret.out = ret.wrapped
    /\ ret.op = "Value.__bool__" => ret.out = TRUE

-----------------------------------------------------------------------------
(* tramp.results: the context manager returned by Result.build() *)

\* raise ResultWasNeverSetException("No value was ever set on the result.")
NeverSetException ==
    Object("ResultWasNeverSetException", "No value was ever set on the result.")

\* how a call of __exit__ ends: the container afterwards, the exception it
\* raised if any, and whether it returned True
Exited(_result, res, returned) ==
    [_result |-> _result, raised |-> res.raised, exc |-> res.exc, returned |-> returned]

\* __exit__ that leaves a container alone once it holds a value
ResultBuilder__exit__keeps_set_value(_result, exc_type, exc_val) ==
    IF exc_type # PyNone
    THEN Exited(IF _result._set THEN _result ELSE Container_set(_result, Error(exc_val)),
                Returned(PyNone), TRUE)
    ELSE LET read == Container_value(_result) IN
         IF read.raised THEN Exited(_result, read, FALSE)
         ELSE IF read.out = PyNone THEN Exited(_result, Raise(NeverSetException), FALSE)
         ELSE Exited(_result, Returned(PyNone), TRUE)

\* ResultBuilder.__exit__, _result being the builder's Container
ResultBuilder__exit__(_result, exc_type, exc_val) ==
    IF exc_type # PyNone
    THEN Exited(Container_set(_result, Error(exc_val)), Returned(PyNone), TRUE)
    ELSE LET read == Container_value(_result) IN
         IF read.raised THEN Exited(_result, read, FALSE)
         ELSE IF read.out = PyNone THEN Exited(_result, Raise(NeverSetException), FALSE)
         ELSE Exited(_result, Returned(PyNone), TRUE)

\* type(exc_val)
type(exc_val) == Object("type", exc_val.type)

-----------------------------------------------------------------------------
(* Specification ResultSpec: one `with Result.build() as result:` block,     *)
(* whose body sets values and then ends or raises, and reads of `result`     *)
(* after it                                                                  *)

\* what the body sets on the result
BodyValues == ContainerValues \cup {Value(Object("int", "42"))}

\* Result.build(), ResultBuilder.__init__ and __enter__: control is in the body
InitResult ==
    /\ container = Container__init__(<<>>, NoKwargs)
    /\ supplied = NothingSupplied
    /\ block = "body"
    /\ ret = [op |-> "__enter__"]
    /\ strings = <<>>
    /\ lists = <<>>

\* result.set(value) in the body
BodySet ==
    /\ block = "body"
    /\ \E value \in BodyValues :
         /\ container' = Container_set(container, value)
         /\ supplied' = [any |-> TRUE, last |-> value]
         /\ ret' = [op |-> "set", value |-> value]
    /\ UNCHANGED <<strings, lists, block>>

\* The with statement leaving the body: __exit__ is called; an exception it
\* raises leaves the statement, otherwise the body's exception does unless
\* __exit__ returned True.
Leave(exc_type, exc_val) ==
    LET exit == ResultBuilder__exit__(container, exc_type, exc_val) IN
    /\ block = "body"
    /\ block' = "left"
    /\ container' = exit._result
    /\ ret' = [op |-> "__exit__", exc_val |-> exc_val,
               propagated |-> IF exit.raised THEN exit.exc
                              ELSE IF exit.returned THEN PyNone
                              ELSE exc_val]
    /\ UNCHANGED <<strings, lists, supplied>>

\* the body ends without an exception
BodyEnds == Leave(PyNone, PyNone)

\* the body raises exc_val
BodyRaises == \E exc_val \in Exceptions : Leave(type(exc_val), exc_val)

\* result.value after the block
ResultValue ==
    LET read == Container_value(container) IN
    /\ block = "left"
    /\ ret' = [op |-> "value", raised |-> read.raised, exc |-> read.exc, out |-> read.out]
    /\ UNCHANGED <<strings, lists, container, supplied, block>>

\* result.never_set after the block
ResultNeverSet ==
    /\ block = "left"
    /\ ret' = [op |-> "never_set", out |-> Container_never_set(container)]
    /\ UNCHANGED <<strings, lists, container, supplied, block>>

NextResult ==
    \/ BodySet
    \/ BodyEnds
    \/ BodyRaises
    \/ ResultValue
    \/ ResultNeverSet

ResultSpec == InitResult /\ [][NextResult]_vars

\* the result holds an Error that wraps an exception of the given type
HoldsErrorOfType(exception_type) ==
    /\ container._set
    /\ container._value.wrap = "Error"
    /\ container._value.type = exception_type

\* C16: a Result.build() block left normally without a value ever having
\* been set surfaces as ResultWasNeverSetException, raised from the block or
\* wrapped in the resulting Error, and never as another type of exception.
C16_NeverSetSurfacesAsNeverSetException ==
    ret.op = "__exit__" /\ ret.exc_val = PyNone /\ ~supplied.any =>
        \/ ret.propagated.type = "ResultWasNeverSetException"
        \/ ret.propagated = PyNone /\ HoldsErrorOfType("ResultWasNeverSetException")

-----------------------------------------------------------------------------
(* Specification NestSpec: the operations of Spec, and a builder given as an *)
(* element: to the constructor and to add.  (join makes a builder of its     *)
(* arguments as the constructor does, renders it and keeps nothing.)         *)

\* ProtectedStringBuilder(builder, *parts)
NewOfBuilder ==
    /\ CanAllocate
    /\ \E o \in Objs, parts \in SeqsUpTo(HeapParts, 1) :
         Becomes(Builder__init__(Heap, <<BuilderRef(o)>> \o parts), "__init__",
                 <<>>, <<BuilderRef(o)>> \o parts)

\* builder.add(other_builder)
AppendBuilder ==
    \E self \in Objs, string \in {BuilderRef(o) : o \in Objs} :
        /\ Len(contents(Heap, self)) + 1 <= MaxParts
        /\ strings' = strings
        /\ lists' = add(Heap, self, string, <<>>, FALSE).lists
        /\ UNCHANGED <<container, supplied, block>>
        /\ ret' = [op |-> "add", self |-> self, other |-> string,
                   name |-> <<>>, hide_name |-> FALSE, obj |-> self]

NextNest ==
    \/ New
    \/ NewOfBuilder
    \/ LeafAdd
    \/ LeafRadd
    \/ LeafIadd
    \/ Concat
    \/ ConcatReflected
    \/ ExtendInPlace
    \/ Append_
    \/ AppendBuilder

NestSpec == Init /\ [][NextNest]_vars

\* C18: flatness: after any sequence of construction, + in either operand
\* order, +=, add and join, every element of a builder's list is a str or a
\* ProtectedString leaf, never a builder: a builder given as an operand or
\* an element contributes its parts one by one.
C18_PartListsAreFlat ==
    \A o \in Objs :
        \A i \in DOMAIN contents(Heap, o) :
            ~isinstance_Builder(contents(Heap, o)[i])

-----------------------------------------------------------------------------
(* Specification NamesSpec: render and join given, as `allowed`, a           *)
(* collection of names or one str                                            *)

\* the names a caller lists
ListedNames == Names \ {<<>>}

NamePolicies ==
    {Container(ns) : ns \in SUBSET ListedNames} \cup {StrAllowed(n) : n \in ListedNames}

RenderNamed ==
    NotCalled /\
    \E self \in Objs, redact_with \in Markers, allowed \in NamePolicies :
        /\ ret' = [op |-> "render", parts |-> contents(Heap, self),
                   redact_with |-> redact_with, allowed |-> allowed,
                   items |-> render_items(contents(Heap, self), redact_with, allowed),
                   out |-> render(Heap, self, redact_with, allowed)]
        /\ UNCHANGED <<strings, lists, container, supplied, block>>

JoinNamed ==
    NotCalled /\
    \E self \in Objs, redact_with \in Markers, allowed \in NamePolicies :
        LET parts == contents(Heap, self) IN
        /\ ret' = [op |-> "join", parts |-> parts,
                   redact_with |-> redact_with, allowed |-> allowed,
                   items |-> render_items(parts, redact_with, allowed),
                   out |-> PS_join(Heap, parts, redact_with, allowed)]
        /\ UNCHANGED <<strings, lists, container, supplied, block>>

NextNames ==
    \/ RenderNamed
    \/ JoinNamed

NamesSpec == InitRender /\ [][NextNames]_vars

\* C19: given as `allowed` a list, set or tuple of names, or one str, render
\* and join emit a segment unredacted only if its name equals one of the
\* names the caller listed; so an unnamed segment, and a segment whose name
\* is only a fragment of a listed name, is never emitted unredacted.
C19_RevealedOnlyIfNameListed ==
    ret.op \in {"render", "join"} =>
        \A i \in DOMAIN ret.parts :
            LET leaf == ret.parts[i] IN
            leaf.kind = "ProtectedString"
                /\ ret.items[i] # Redaction(ret.redact_with, leaf)
            => leaf.name # <<>> /\ leaf.name \in ret.allowed.names

=============================================================================
